---- MODULE Spec2Model ----
(***************************************************************************)
(* State-machine model of ATerminalActor (Project_Refinement): the global  *)
(* wrapping grid, the scary flags, the four progress bars, the pending     *)
(* chunk and the day / file counters, with one action per callable         *)
(* operation of src/Project_Refinement/TerminalActor.cpp.                  *)
(*                                                                         *)
(* Number representation.  Progress values are floats in the source; the   *)
(* model keeps them as integers in units of 1/One (One == 400, i.e. one    *)
(* unit is 0.0025).  A tile of value v is worth v * 0.005 = 2v units, a    *)
(* scary tile 8v units, and the 1.5x reward of a chunk c is 3c/2 units     *)
(* (c is always even).  Rounding of progress values is not modelled.       *)
(* The scroll accumulators are floats of MantBits significand bits, in     *)
(* units of 1/AccUnit of a tile, rounded to nearest even; int32 values run *)
(* over IntMin..IntMax.  The distances of the proximity sensor are exact    *)
(* integers in the same units, its square root rounded down.              *)
(*                                                                         *)
(* Randomness.  FMath::RandRange draws from the engine's global pseudo     *)
(* random stream.  The stream is the variable RandSeed: every draw reads   *)
(* the current seed and advances it; the initial seed is drawn from a      *)
(* bounded set.                                                            *)
(***************************************************************************)
EXTENDS Integers, Sequences, FiniteSets, TLC

\* ------------------------------------------------------------------ bounds
MaxCalls == 3        \* calls made by the host in one behaviour (grid specification)
MaxDayCalls == 3     \* counted calls in one behaviour (day specification)
DaySeeds == 1        \* initial seeds 0..DaySeeds-1 of the day specification
GridSeeds == 3       \* initial seeds 0..GridSeeds-1 of the grid specification
MaxTime  == 1        \* world clock runs over 0..MaxTime
RandMod  == 14       \* number of states of the pseudo random stream
LongLen  == 34       \* length of the long selection the host may drop
MaxCfgCalls == 2     \* calls in one behaviour (configuration specification)
MaxCoord == 2        \* coordinates asked of the lookups run over -1..MaxCoord
IntMax   == 1023     \* image of INT32_MAX: int32 values run over IntMin..IntMax
MantBits == 3        \* image of the 24 significand bits of a float
MaxScrollCalls == 4  \* calls in one behaviour (scroll specification)
MaxSensorCalls == 3   \* calls of a sensor run
SensorSeeds == 4      \* seeds of the sensor runs
MaxPrimeCalls == 4    \* calls of a run on a given list of prime indices
MaxSectorCalls == 2  \* calls in one behaviour (sector specification)

\* --------------------------------------------------------- program constants
NumBars    == 4      \* ProgressBars.Init(0.f, 4)
SectorSize == 50     \* int32 SectorSize = 50
EdgeOffset == 5      \* RandRange(5, SectorSize - 5)
RandLo     == 1      \* RandRange(1, 9)
RandHi     == 9
CtorScroll == 500    \* ScrollX = 500; ScrollY = 500
One        == 400    \* fixed-point image of 1.0f
AccUnit    == 16     \* fixed-point image of 1.0f for the accumulators
AxisOne    == 8      \* fixed-point image of 1.0f for the axis values
CoolUnit   == 2      \* fixed-point image of one second for the cooldown timers
DefaultCooldown == 5 \* float BarCooldownSeconds = 2.5f, in units of 1/CoolUnit s
ScrollSensitivity == 1   \* 0.5f: accumulator units (1/AccUnit) per axis unit (1/AxisOne)

VARIABLES
    GlobalMapWidth, GlobalMapHeight,   \* configured size of the global grid
    GridWidth, GridHeight,             \* configured size of the viewport
    BarCooldownSeconds,                \* EditAnywhere, in units of 1/CoolUnit s
    FilesPerDay,                       \* configured files per day
    GlobalGridNumbers,                 \* [0..n-1 -> value]
    ScaryActive,                       \* [0..n-1 -> BOOLEAN]
    ScrollX, ScrollY,
    AccumulatorX, AccumulatorY,
    deltaSum,                          \* history: <<x, y>> sums of the deltas applied
    stepSum,                           \* history: <<x, y>> sums of the whole steps taken
    inexact,                           \* history: some float or int32 operation was not exact
    ProgressBars,                      \* [0..3 -> 0..One]
    PendingChunkValue,
    bDayActive,
    FilesRefinedCount,
    DayStartTime,
    RandSeed,                          \* state of the random stream
    now,                               \* GetWorld()->GetTimeSeconds()
    events,                            \* notifications emitted by the last call
    call,                              \* the last call: operation and arguments
    calls,                             \* calls the host may still make
    bBarCoolingDown,                   \* [0..3 -> BOOLEAN]
    BarCooldownRemaining,              \* [0..3 -> time], in units of 1/CoolUnit s
    fatal,                             \* the process was stopped by a hardware trap
    PrimeIndices                       \* TArray<int32>, a sequence of indices

cfgVars   == <<GlobalMapWidth, GlobalMapHeight, GridWidth, GridHeight, FilesPerDay,
               BarCooldownSeconds>>
gridVars  == <<GlobalGridNumbers, ScaryActive>>
scrollVars == <<ScrollX, ScrollY, AccumulatorX, AccumulatorY, deltaSum, stepSum, inexact>>
progVars  == <<ProgressBars, PendingChunkValue, bDayActive, FilesRefinedCount>>
coolVars  == <<bBarCoolingDown, BarCooldownRemaining>>
vars == <<cfgVars, gridVars, scrollVars, progVars, DayStartTime, RandSeed, now,
          events, call, calls, coolVars, fatal, PrimeIndices>>

\* ------------------------------------------------------------- arithmetic
\* C++ integer division and remainder truncate toward zero.  Division by
\* zero is undefined: the hardware either traps (see MayTrap) or delivers
\* quotient 0, which leaves the dividend as the remainder.
Abs(a) == IF a < 0 THEN -a ELSE a
CQuot(a, b) ==
    IF b = 0 THEN 0
    ELSE IF (a >= 0) = (b > 0) THEN Abs(a) \div Abs(b) ELSE -(Abs(a) \div Abs(b))
\* The outcomes of a call that divides by zero when divides holds.
MayTrap(divides) == IF divides THEN {TRUE, FALSE} ELSE {FALSE}
CRem(a, b)  == a - b * CQuot(a, b)

Min(a, b) == IF a < b THEN a ELSE b

\* int32: two's complement over IntMin..IntMax; an overflowing addition wraps.
IntMin == -IntMax - 1
WrapInt(x) == ((x - IntMin) % (2 * (IntMax + 1))) + IntMin

\* float: v (in units of 1/AccUnit) is representable when its magnitude has at
\* most MantBits significant bits.  FQuantum(a) is the spacing of the floats
\* around magnitude a; FRound rounds to the nearest float, ties to even.
RECURSIVE Pow2(_)
Pow2(n) == IF n = 0 THEN 1 ELSE 2 * Pow2(n - 1)
RECURSIVE FQuantum(_)
FQuantum(a) == IF a < Pow2(MantBits) THEN 1 ELSE 2 * FQuantum(a \div 2)
FRound(v) ==
    LET a   == Abs(v)
        q   == FQuantum(a)
        lo  == (a \div q) * q
        rem == a - lo
        r   == IF 2 * rem < q THEN lo
               ELSE IF 2 * rem > q THEN lo + q
               ELSE IF (lo \div q) % 2 = 0 THEN lo ELSE lo + q
    IN  IF v < 0 THEN -r ELSE r

\* (int32)f of a float f: truncation toward zero.  The conversion of a value
\* outside int32 is undefined: the hardware delivers IntMin or saturates.
FloatToInt(f) ==
    LET q == CQuot(f, AccUnit)
    IN  IF q \in IntMin .. IntMax THEN {q}
        ELSE {IntMin, IF f < 0 THEN IntMin ELSE IntMax}
\* (float)i of an int32 i
IntToNoFloat(i) == 0
IntToFloat(i) == FRound(i * AccUnit)

\* x % N; if (x < 0) x += N;
WrapTruncated(x, n) == CRem(x, n)
WrapCoord(x, n) == LET r == CRem(x, n) IN IF r < 0 THEN r + n ELSE r

CeilDiv(a, b) == (a + b - 1) \div b

IsValidIndex(arr, i) == i \in DOMAIN arr

\* FMath::Clamp(x, 0.f, 1.f)
NoClamp(x) == x
Clamp01(x) == IF x < 0 THEN 0 ELSE IF x > One THEN One ELSE x

\* ------------------------------------------------------------- randomness
SeedAfter(s, k) == (s + k) % RandMod
\* FMath::RandRange(lo, hi) = lo + trunc(FRand() * (hi - lo + 1))
RandRange(lo, hi, s) == lo + (s * (hi - lo + 1)) \div RandMod

\* ----------------------------------------------------------- notifications
Ev(name, a, b) == [ev |-> name, a |-> a, b |-> b]
Ev0(name) == Ev(name, 0, 0)
NoCall == [op |-> "none", bar |-> 0, sel |-> <<>>]
Call(name, bar, sel) == [op |-> name, bar |-> bar, sel |-> sel]

\* ------------------------------------------------------- index conversion
\* ATerminalActor::GetGlobalIndexFromScreenIndex
GetGlobalIndexByColumns(ScreenIndex) ==
    WrapCoord(ScrollY + CQuot(ScreenIndex, GridHeight), GlobalMapHeight) * GlobalMapWidth
      + WrapCoord(ScrollX + CRem(ScreenIndex, GridHeight), GlobalMapWidth)
GetGlobalIndexFromScreenIndex(ScreenIndex) ==
    WrapCoord(ScrollY + CQuot(ScreenIndex, GridWidth), GlobalMapHeight) * GlobalMapWidth
      + WrapCoord(ScrollX + CRem(ScreenIndex, GridWidth), GlobalMapWidth)

\* x % GlobalMapWidth and y % GlobalMapHeight divide by zero on a map with a
\* zero dimension; ScreenIndex % GridWidth on a viewport of zero width.
MapDividesByZero   == GlobalMapWidth = 0 \/ GlobalMapHeight = 0
IndexDividesByZero == GridWidth = 0 \/ MapDividesByZero

\* ------------------------------------------------------- grid generation
\* Step 1 of GenerateGrid: cell i takes the i-th draw of the stream.
FillValue(s, i) == RandRange(RandLo, RandHi, SeedAfter(s, i))

SectorsX == CeilDiv(GlobalMapWidth, SectorSize)
SectorsY == CeilDiv(GlobalMapHeight, SectorSize)

\* Step 2 of GenerateGrid: the index picked for sector k (row-major loop order);
\* the two draws of sector k follow the fill draws.
SectorPickAnywhere(s, k) ==
    LET Total == GlobalMapWidth * GlobalMapHeight
        x     == (k % SectorsX) * SectorSize
        y     == (k \div SectorsX) * SectorSize
        RandX == x + RandRange(0, SectorSize - 1, SeedAfter(s, Total + 2 * k))
        RandY == y + RandRange(0, SectorSize - 1, SeedAfter(s, Total + 2 * k + 1))
    IN  [x |-> RandX, y |-> RandY, idx |-> RandY * GlobalMapWidth + RandX]
SectorPick(s, k) ==
    LET Total == GlobalMapWidth * GlobalMapHeight
        x     == (k % SectorsX) * SectorSize
        y     == (k \div SectorsX) * SectorSize
        RandX == x + RandRange(EdgeOffset, SectorSize - EdgeOffset, SeedAfter(s, Total + 2 * k))
        RandY == y + RandRange(EdgeOffset, SectorSize - EdgeOffset, SeedAfter(s, Total + 2 * k + 1))
    IN  [x |-> RandX, y |-> RandY, idx |-> RandY * GlobalMapWidth + RandX]

\* The arrays and the seed GenerateGrid leaves behind, started at seed s.
GenerateFrom(s) ==
    LET Total == GlobalMapWidth * GlobalMapHeight
        Cells == 0 .. (Total - 1)
        Picks == { SectorPick(s, k).idx : k \in 0 .. (SectorsX * SectorsY - 1) }
    IN  [ grid  |-> [i \in Cells |-> FillValue(s, i)],
          scary |-> [i \in Cells |-> i \in Picks],
          seed  |-> SeedAfter(s, Total + 2 * SectorsX * SectorsY) ]

\* ------------------------------------------------------------ progress
\* The part of the state the progress engine works on, as a record, so that
\* HandleScaryDrop and ApplChunkToBar can call into one another.
ProgState == [ bars    |-> ProgressBars,
               pending |-> PendingChunkValue,
               active  |-> bDayActive,
               files   |-> FilesRefinedCount,
               out     |-> <<>> ]

Emit(p, e) == [p EXCEPT !.out = Append(@, e)]

\* ATerminalActor::ResetProgressBars
ResetKeep(p) == p
ResetEndingDay(p) ==
    [p EXCEPT !.bars = [i \in 0 .. (NumBars - 1) |-> 0], !.active = FALSE,
              !.out = @ \o [i \in 1 .. NumBars |-> Ev("ProgressUpdated", i - 1, 0)]]
ResetProgressBarsOp(p) ==
    LET z == [p EXCEPT !.bars = [i \in 0 .. (NumBars - 1) |-> 0]]
    IN  [z EXCEPT !.out = @ \o [i \in 1 .. NumBars |-> Ev("ProgressUpdated", i - 1, 0)]]

\* ATerminalActor::GetMasterProgress: Clamp(Total / 4.0f, 0.f, 1.f), kept in
\* units of 1/(NumBars * One) so that the division is exact.
SumBars(bars) == bars[0] + bars[1] + bars[2] + bars[3]
GetMasterProgressOfThree(bars) ==
    LET Total == (SumBars(bars) * NumBars) \div (NumBars - 1)
    IN  IF Total < 0 THEN 0 ELSE IF Total > NumBars * One THEN NumBars * One ELSE Total
GetMasterProgress(bars) ==
    LET Total == SumBars(bars)
    IN  IF Total < 0 THEN 0 ELSE IF Total > NumBars * One THEN NumBars * One ELSE Total
MasterOne == NumBars * One

\* ATerminalActor::AllBarsFull
AllBarsFull(bars) == \A i \in DOMAIN bars : ~(bars[i] < One)

\* ATerminalActor::OnFileWorkComplete
OnFileWorkCompleteLate(p) ==
    LET c  == p.files + 1
        p1 == Emit([p EXCEPT !.files = c], Ev("FileCompleted", c, FilesPerDay))
    IN  IF c > FilesPerDay
        THEN Emit([p1 EXCEPT !.active = FALSE], Ev("DayComplete", now - DayStartTime, 0))
        ELSE Emit(ResetProgressBarsOp(p1), Ev0("ShowFileSelection"))
OnFileWorkCompleteOp(p) ==
    LET c  == p.files + 1
        p1 == Emit([p EXCEPT !.files = c], Ev("FileCompleted", c, FilesPerDay))
    IN  IF c >= FilesPerDay
        THEN Emit([p1 EXCEPT !.active = FALSE], Ev("DayComplete", now - DayStartTime, 0))
        ELSE Emit(ResetProgressBarsOp(p1), Ev0("ShowFileSelection"))

\* The early exits of ApplChunkToBar.
ChunkRejectedUnlessFull(p, BarIndex) ==
    \/ ~p.active
    \/ p.pending <= 0
    \/ ~IsValidIndex(p.bars, BarIndex)
ChunkRejectedAnyDay(p, BarIndex) ==
    \/ p.pending <= 0
    \/ ~IsValidIndex(p.bars, BarIndex)
    \/ p.bars[BarIndex] >= One
ChunkRejected(p, BarIndex) ==
    \/ ~p.active
    \/ p.pending <= 0
    \/ ~IsValidIndex(p.bars, BarIndex)
    \/ p.bars[BarIndex] >= One

\* ProgressBars[BarIndex] + PendingChunkValue * 1.5f, clamped
RewardNone(c) == c
RewardDouble(c) == 2 * c
RewardOf(c) == (c * 3) \div 2
FilledBar(bar, c) == Clamp01(bar + RewardOf(c))

\* ATerminalActor::ApplChunkToBar
ApplChunkEitherCheck(p, BarIndex) ==
    IF ChunkRejected(p, BarIndex) THEN p
    ELSE
      LET v  == FilledBar(p.bars[BarIndex], p.pending)
          p1 == [p EXCEPT !.bars[BarIndex] = v, !.pending = 0]
          p2 == Emit(Emit(p1, Ev0("ChunkConsumed")), Ev("ProgressUpdated", BarIndex, v))
      IN  IF GetMasterProgress(p2.bars) >= MasterOne THEN OnFileWorkCompleteOp(p2)
          ELSE IF AllBarsFull(p2.bars) THEN Emit(p2, Ev0("AllBarsFull")) ELSE p2
ApplChunkToBarOp(p, BarIndex) ==
    IF ChunkRejected(p, BarIndex) THEN p
    ELSE
      LET v  == FilledBar(p.bars[BarIndex], p.pending)
          p1 == [p EXCEPT !.bars[BarIndex] = v, !.pending = 0]
          p2 == Emit(Emit(p1, Ev0("ChunkConsumed")), Ev("ProgressUpdated", BarIndex, v))
          p3 == IF GetMasterProgress(p2.bars) >= MasterOne THEN OnFileWorkCompleteOp(p2) ELSE p2
      IN  IF AllBarsFull(p3.bars) THEN Emit(p3, Ev0("AllBarsFull")) ELSE p3

\* ---------------------------------------------------------------- drops
\* (float)NumberValue * 0.005f, in units of 1/One
BaseContribution(v) == 2 * v
NoBonus(c) == c
ScaryBonus(c) == 4 * c

\* GlobalGridNumbers[GlobalIdx] = FMath::RandRange(1, 9)
RespawnZero(s) == 0
Respawn(s) == RandRange(RandLo, RandHi, s)

\* ScaryActive[GlobalIdx] = false
KeepFlag(scary, GlobalIdx) == scary
ConsumeFlag(scary, GlobalIdx) == [scary EXCEPT ![GlobalIdx] = FALSE]

\* One iteration of the loop of HandleScaryDrop on the running record
\* d = [grid, scary, seed, total], for the cell GlobalIdx of the entry.
CreditTile(d, GlobalIdx, isScary) ==
    [ grid  |-> [d.grid EXCEPT ![GlobalIdx] = Respawn(d.seed)],
      scary |-> IF isScary THEN ConsumeFlag(d.scary, GlobalIdx) ELSE d.scary,
      seed  |-> SeedAfter(d.seed, 1),
      total |-> d.total + (IF isScary THEN ScaryBonus(BaseContribution(d.grid[GlobalIdx]))
                                      ELSE BaseContribution(d.grid[GlobalIdx])) ]
DropCell(d, GlobalIdx) ==
    IF ~IsValidIndex(d.grid, GlobalIdx) THEN d
    ELSE CreditTile(d, GlobalIdx, IsValidIndex(d.scary, GlobalIdx) /\ d.scary[GlobalIdx])
DropTile(d, ScreenIdx) == DropCell(d, GetGlobalIndexFromScreenIndex(ScreenIdx))

\* for (int32 ScreenIdx : TileIndices): iterations k.. of the loop, started
\* on d.  DropFrom has the record n of iteration k computed (its guard always
\* holds) before the loop goes on to the next iteration.
RECURSIVE DropLoop(_, _, _)
DropFrom(n, TileIndices, k) ==
    CASE n.seed \in 0 .. (RandMod - 1) -> DropLoop(n, TileIndices, k + 1)
DropLoop(d, TileIndices, k) ==
    IF k > Len(TileIndices) THEN d
    ELSE DropFrom(DropTile(d, TileIndices[k]), TileIndices, k)

DropStart == [grid |-> GlobalGridNumbers, scary |-> ScaryActive,
              seed |-> RandSeed, total |-> 0]

\* ----------------------------------------------------------------- primes
\* ATerminalActor::IsPrime
IsPrime(Number) == Number = 2 \/ Number = 3 \/ Number = 5 \/ Number = 7

\* ATerminalActor::HighlightRandomPrime on the index list Indices: the flags
\* and the random stream it leaves.
HighlightAnyOp(Indices, scary, seed) ==
    LET Open == { i \in DOMAIN scary : ~scary[i] }
    IN  IF Open = {} THEN [scary |-> scary, seed |-> seed]
        ELSE [scary |-> [scary EXCEPT ![CHOOSE i \in Open : \A j \in Open : i <= j] = TRUE],
              seed |-> SeedAfter(seed, 1)]
HighlightRandomPrimeOp(Indices, scary, seed) ==
    IF Len(Indices) = 0 THEN [scary |-> scary, seed |-> seed]
    ELSE LET Candidates == SelectSeq(Indices,
                               LAMBDA Idx : IsValidIndex(scary, Idx) /\ ~scary[Idx])
         IN  IF Len(Candidates) = 0 THEN [scary |-> scary, seed |-> seed]
             ELSE LET Chosen == Candidates[1 + RandRange(0, Len(Candidates) - 1, seed)]
                  IN  [scary |-> [scary EXCEPT ![Chosen] = TRUE],
                       seed  |-> SeedAfter(seed, 1)]

\* ---------------------------------------------------------------- queries
\* ATerminalActor::IsIndexScary
IsIndexScary(ScreenIndex) ==
    LET GlobalIdx == GetGlobalIndexFromScreenIndex(ScreenIndex)
    IN  IF IsValidIndex(ScaryActive, GlobalIdx) THEN ScaryActive[GlobalIdx] ELSE FALSE

\* ATerminalActor::IsBarAvailable
IsBarAvailableWhenFull(BarIndex) ==
    IsValidIndex(bBarCoolingDown, BarIndex) /\ ~bBarCoolingDown[BarIndex]
IsBarAvailable(BarIndex) ==
    IF ~IsValidIndex(bBarCoolingDown, BarIndex) \/ ~IsValidIndex(ProgressBars, BarIndex)
    THEN FALSE
    ELSE LET bIsCooling == bBarCoolingDown[BarIndex]
             bIsFull    == ProgressBars[BarIndex] >= One
         IN  ~bIsCooling /\ ~bIsFull

\* ATerminalActor::GetBarCooldownRatio, as a fixed-point fraction of One
GetBarCooldownRatio(BarIndex) ==
    IF ~IsValidIndex(BarCooldownRemaining, BarIndex) \/ BarCooldownSeconds <= 0
    THEN 0
    ELSE Clamp01((BarCooldownRemaining[BarIndex] * One) \div BarCooldownSeconds)

\* ATerminalActor::IsBarFull
IsBarFullUnchecked(BarIndex) ==
    ~IsValidIndex(ProgressBars, BarIndex) \/ ProgressBars[BarIndex] >= One
IsBarFull(BarIndex) ==
    IF IsValidIndex(ProgressBars, BarIndex) THEN ProgressBars[BarIndex] >= One ELSE FALSE

\* ATerminalActor::GetGridNumber
GetGridNumber(GridX, GridY) ==
    LET WrappedX  == WrapCoord(GridX, GlobalMapWidth)
        WrappedY  == WrapCoord(GridY, GlobalMapHeight)
        GlobalIdx == WrappedY * GlobalMapWidth + WrappedX
    IN  IF IsValidIndex(GlobalGridNumbers, GlobalIdx) THEN GlobalGridNumbers[GlobalIdx] ELSE 0

\* ATerminalActor::Get3x3Group: the neighbourhood in loop order (y outer, x inner)
GroupOffsets == << <<-1, -1>>, <<0, -1>>, <<1, -1>>,
                   <<-1, 0>>,  <<0, 0>>,  <<1, 0>>,
                   <<-1, 1>>,  <<0, 1>>,  <<1, 1>> >>
Get3x3GroupWrapping(CenterIndex) ==
    LET CenterX == CRem(CenterIndex, GlobalMapWidth)
        CenterY == CQuot(CenterIndex, GlobalMapWidth)
    IN  [k \in DOMAIN GroupOffsets |->
           WrapCoord(CenterY + GroupOffsets[k][2], GlobalMapHeight) * GlobalMapWidth
             + WrapCoord(CenterX + GroupOffsets[k][1], GlobalMapWidth)]
Get3x3Group(CenterIndex) ==
    LET CenterX == CRem(CenterIndex, GlobalMapWidth)
        CenterY == CQuot(CenterIndex, GlobalMapWidth)
        InMap(o) == LET x == CenterX + o[1]
                        y == CenterY + o[2]
                    IN  x >= 0 /\ x < GlobalMapWidth /\ y >= 0 /\ y < GlobalMapHeight
        Kept == SelectSeq(GroupOffsets, InMap)
    IN  [k \in DOMAIN Kept |-> (CenterY + Kept[k][2]) * GlobalMapWidth + (CenterX + Kept[k][1])]

\* ATerminalActor::GetSensorProximityValue.  Lengths are in units of 1/AccUnit
\* tile, squared lengths in units of 1/AccUnit^2; the float operations of the
\* sensor are taken as exact and FMath::Sqrt as the square root rounded down
\* to a whole unit.
SearchRadius    == 16
ScanExtent      == 10
RealMaxDistance == 15
CenterOffset    == (9 * AccUnit) \div 2
Square(a) == a * a
MaxDistSq == Square(RealMaxDistance * AccUnit)
Sqrt(d) == CHOOSE r \in 0 .. (RealMaxDistance * AccUnit) : Square(r) <= d /\ d < Square(r + 1)
SensorCenterX == ScrollX * AccUnit + AccumulatorX + CenterOffset
SensorCenterY == ScrollY * AccUnit + AccumulatorY + CenterOffset
\* The coordinates one loop runs over, each with the coordinate it wraps to.
ScanRange(Scroll, Size) ==
    { <<v, WrapCoord(v, Size)>> :
        v \in (Scroll - SearchRadius) .. (Scroll + SearchRadius + ScanExtent) }
\* DistSq of the scanned cell (x, y), which wraps to (WrappedX, WrappedY)
WrappedDistSq(x, y, WrappedX, WrappedY) ==
    Square(WrappedX * AccUnit - SensorCenterX) + Square(WrappedY * AccUnit - SensorCenterY)
ScanDistSq(x, y, WrappedX, WrappedY) ==
    Square(x * AccUnit - SensorCenterX) + Square(y * AccUnit - SensorCenterY)
\* The DistSq values of the scanned cells whose flag is set.
ScaryDistSqs ==
    { ScanDistSq(c[1][1], c[2][1], c[1][2], c[2][2]) :
        c \in { d \in ScanRange(ScrollX, GlobalMapWidth) \X ScanRange(ScrollY, GlobalMapHeight) :
                  LET GlobalIdx == d[2][2] * GlobalMapWidth + d[1][2]
                  IN  IsValidIndex(ScaryActive, GlobalIdx) /\ ScaryActive[GlobalIdx] } }
\* MinDistSq when the scan ends: the least of the initial threshold and the
\* values met.  bFound is set exactly when it ends below the threshold.
Least(S) == CHOOSE d \in S : \A e \in S : d <= e
MinDistSq == CHOOSE m \in { Least(S) : S \in {ScaryDistSqs \cup {MaxDistSq}} } : TRUE
ProximityAt(m) ==
    IF ~(m < MaxDistSq) THEN 0
    ELSE Clamp01(One - (Sqrt(m) * One) \div (RealMaxDistance * AccUnit))
GetSensorProximityValue == CHOOSE v \in { ProximityAt(m) : m \in {MinDistSq} } : TRUE

\* ------------------------------------------------------------ host inputs
BarInputs    == -1 .. NumBars
ScreenInputs == -1 .. (GridWidth * GridHeight)
LongSelection == [k \in 1 .. LongLen |-> 0]

\* Selections, axis pairs and configurations of the grid specification.
GridSelections == {<<>>, <<0, 0>>, <<0, 1>>} \cup { <<i>> : i \in ScreenInputs }
GridAxes       == {<<-AxisOne, 0>>, <<0, -AxisOne>>, <<0, 2 * AxisOne>>, <<0, 4 * AxisOne>>}
GridConfigs    == { [W |-> 1, H |-> 27, VW |-> 1, VH |-> 4, FPD |-> 2,
                      CD |-> DefaultCooldown] }

\* Selections, axis pairs and configurations of the day specification.
DaySelections == {<<>>, <<0>>, LongSelection}
DayAxes       == {<<-AxisOne, 2 * AxisOne>>}
DayConfigs    == { [W |-> 1, H |-> 1, VW |-> 1, VH |-> 1, FPD |-> f,
                     CD |-> DefaultCooldown] : f \in {1, 2} }

\* the configuration specification: maps and viewports with a zero dimension
CfgSelections == {<<>>, <<0>>, <<-1>>}
CfgAxes       == {<<0, 0>>, <<AxisOne, -AxisOne>>, <<-2 * AxisOne, 6 * AxisOne>>}
CfgConfigs    ==
    { [W |-> d[1], H |-> d[2], VW |-> d[3], VH |-> d[4], FPD |-> 1, CD |-> cd] :
        d \in {<<0, 2, 1, 1>>, <<2, 0, 1, 1>>, <<2, 3, 0, 1>>, <<2, 3, 2, 3>>},
        cd \in {0, DefaultCooldown} }

\* the scroll specification: a map one cell wider than the constructor's
\* scroll position, axis values with fractions and one beyond int32
BigAxis       == 2 * AccUnit * (IntMax + 1)
AxisSteps     == {-1, -6, -AxisOne, AxisOne, -2 * AxisOne, 3 * AxisOne}
ScrollAxes    == ({0, -AxisOne} \X AxisSteps) \cup {<<0, 0>>, <<BigAxis, 0>>}
ScrollConfigs == { [W |-> CtorScroll + 1, H |-> CtorScroll + 1, VW |-> 1, VH |-> 1,
                    FPD |-> 1, CD |-> DefaultCooldown] }

\* Sensor runs: a 3 x 9 and a 1 x 41 map under the 10 x 10 viewport and a
\* 1 x 46 map under a 2 x 2 viewport; whole and half steps of the trackball.
SensorAxes    == {<<-2 * AxisOne, 0>>, <<0, 2 * AxisOne>>, <<-AxisOne, -AxisOne>>,
                  <<AxisOne, AxisOne>>}
SensorConfigs == {[W |-> 3, H |-> 9, VW |-> 10, VH |-> 10, FPD |-> 1, CD |-> DefaultCooldown],
                  [W |-> 1, H |-> 41, VW |-> 10, VH |-> 10, FPD |-> 1, CD |-> DefaultCooldown],
                  [W |-> 1, H |-> 46, VW |-> 2, VH |-> 2, FPD |-> 1, CD |-> DefaultCooldown]}

\* Configurations of the sector specification: maps of whole 50 x 50 sectors.
SectorConfigs ==
    { [W |-> d[1] * SectorSize, H |-> d[2] * SectorSize, VW |-> 2, VH |-> 2,
       FPD |-> 1, CD |-> DefaultCooldown] : d \in {<<1, 1>>, <<2, 1>>, <<1, 2>>} }

\* Lists of indices handed to HighlightRandomPrime: empty, valid before and
\* after generation, out of range, repeated.
PrimeLists == {<<>>, <<0>>, <<3, 10>>, <<-1, 27>>, <<5, 5, 12>>}

\* ------------------------------------------------------------------- Init
\* ATerminalActor::ATerminalActor and the member initialisers of the header,
\* with PrimeIndices one of lists.
InitListed(cfgs, seeds, budget, lists) ==
    /\ \E c \in cfgs :
          /\ GlobalMapWidth = c.W /\ GlobalMapHeight = c.H
          /\ GridWidth = c.VW /\ GridHeight = c.VH
          /\ FilesPerDay = c.FPD
          /\ BarCooldownSeconds = c.CD
          /\ ScaryActive = [i \in 0 .. (c.VW * c.VH - 1) |-> FALSE]
    /\ GlobalGridNumbers = <<>>
    /\ ScrollX = CtorScroll /\ ScrollY = CtorScroll
    /\ AccumulatorX = 0 /\ AccumulatorY = 0
    /\ deltaSum = <<0, 0>> /\ stepSum = <<0, 0>> /\ inexact = FALSE
    /\ ProgressBars = [i \in 0 .. (NumBars - 1) |-> 0]
    /\ PendingChunkValue = 0
    /\ bDayActive = FALSE
    /\ FilesRefinedCount = 0
    /\ DayStartTime = 0
    /\ RandSeed \in seeds
    /\ now = 0
    /\ events = <<>>
    /\ call = NoCall
    /\ calls = budget
    /\ bBarCoolingDown = [i \in 0 .. (NumBars - 1) |-> FALSE]
    /\ BarCooldownRemaining = [i \in 0 .. (NumBars - 1) |-> 0]
    /\ fatal = FALSE
    /\ PrimeIndices \in lists

\* The constructor leaves PrimeIndices empty.
InitWith(cfgs, seeds, budget) == InitListed(cfgs, seeds, budget, {<<>>})

\* ---------------------------------------------------------------- actions
\* Bookkeeping of one call by the host; cost is what it takes from the budget.
Called(name, bar, sel, cost) ==
    /\ ~fatal
    /\ calls >= cost
    /\ calls' = calls - cost
    /\ call' = Call(name, bar, sel)
    /\ fatal' = FALSE
    /\ UNCHANGED <<cfgVars, now, coolVars, PrimeIndices>>

\* The call divides by zero and the hardware traps: the process stops.
Trapped(name, bar, sel, cost) ==
    /\ ~fatal
    /\ calls >= cost
    /\ calls' = calls - cost
    /\ call' = Call(name, bar, sel)
    /\ fatal' = TRUE
    /\ events' = <<>>
    /\ UNCHANGED <<cfgVars, now, coolVars, gridVars, scrollVars, progVars,
                   DayStartTime, RandSeed, PrimeIndices>>

\* A drop of the long selection on an open bar of an active day fills that bar;
\* such drops are bounded by the bars themselves and are not counted.
IsFill(TileIndices, BarIndex) ==
    /\ TileIndices = LongSelection
    /\ bDayActive
    /\ IsValidIndex(ProgressBars, BarIndex)
    /\ ProgressBars[BarIndex] < One
DropCost(TileIndices, BarIndex) == IF IsFill(TileIndices, BarIndex) THEN 0 ELSE 1

SetProg(p) ==
    /\ ProgressBars' = p.bars
    /\ PendingChunkValue' = p.pending
    /\ bDayActive' = p.active
    /\ FilesRefinedCount' = p.files

\* The world clock advances between calls.
Tick ==
    /\ ~fatal
    /\ now < MaxTime
    /\ now' = now + 1
    /\ events' = <<>>
    /\ call' = NoCall
    /\ UNCHANGED <<cfgVars, gridVars, scrollVars, progVars, DayStartTime, RandSeed, calls,
                   coolVars, fatal, PrimeIndices>>

\* ATerminalActor::GenerateGrid
GenerateGrid ==
    /\ Called("GenerateGrid", 0, <<>>, 1)
    /\ LET g == GenerateFrom(RandSeed)
       IN  /\ GlobalGridNumbers' = g.grid
           /\ ScaryActive' = g.scary
           /\ RandSeed' = g.seed
    /\ events' = <<Ev0("GridScrolled")>>
    /\ UNCHANGED <<scrollVars, progVars, DayStartTime>>

\* ATerminalActor::StartDay
StartDay ==
    /\ Called("StartDay", 0, <<>>, 1)
    /\ bDayActive' = TRUE
    /\ DayStartTime' = now
    /\ LET g == GenerateFrom(RandSeed)
       IN  /\ GlobalGridNumbers' = g.grid
           /\ ScaryActive' = g.scary
           /\ RandSeed' = g.seed
    /\ events' = <<Ev0("GridScrolled"), Ev0("DayStarted")>>
    /\ UNCHANGED <<scrollVars, ProgressBars, PendingChunkValue, FilesRefinedCount>>

\* ATerminalActor::EndDay
EndDay ==
    /\ Called("EndDay", 0, <<>>, 1)
    /\ bDayActive' = FALSE
    /\ events' = <<Ev0("DayCompleted")>>
    /\ UNCHANGED <<gridVars, scrollVars, ProgressBars, PendingChunkValue,
                   FilesRefinedCount, DayStartTime, RandSeed>>

\* ATerminalActor::ResetProgressBars, called by the host
ResetProgressBars ==
    /\ Called("ResetProgressBars", 0, <<>>, 1)
    /\ LET p == ResetProgressBarsOp(ProgState)
       IN  SetProg(p) /\ events' = p.out
    /\ UNCHANGED <<gridVars, scrollVars, DayStartTime, RandSeed>>

\* ATerminalActor::OnFileWorkComplete, called by the host
OnFileWorkComplete ==
    /\ Called("OnFileWorkComplete", 0, <<>>, 1)
    /\ LET p == OnFileWorkCompleteOp(ProgState)
       IN  SetProg(p) /\ events' = p.out
    /\ UNCHANGED <<gridVars, scrollVars, DayStartTime, RandSeed>>

\* ATerminalActor::ApplChunkToBar, called by the host
ApplChunkToBar(BarIndex) ==
    /\ Called("ApplChunkToBar", BarIndex, <<>>, 1)
    /\ LET p == ApplChunkToBarOp(ProgState, BarIndex)
       IN  SetProg(p) /\ events' = p.out
    /\ UNCHANGED <<gridVars, scrollVars, DayStartTime, RandSeed>>

\* ATerminalActor::HandleScaryDrop: the loop over the selection (its result d),
\* then PendingChunkValue = TotalValueFromSnake, ApplChunkToBar and OnGridScrolled.
DropFinishUnlessEmpty(d, p) ==
    /\ GlobalGridNumbers' = d.grid
    /\ ScaryActive' = d.scary
    /\ RandSeed' = d.seed
    /\ SetProg(p)
    /\ events' = IF d.total = 0 THEN p.out ELSE Append(p.out, Ev0("GridScrolled"))
DropFinish(d, p) ==
    /\ GlobalGridNumbers' = d.grid
    /\ ScaryActive' = d.scary
    /\ RandSeed' = d.seed
    /\ SetProg(p)
    /\ events' = Append(p.out, Ev0("GridScrolled"))

DropApply(d, BarIndex) ==
    DropFinish(d, ApplChunkToBarOp([ProgState EXCEPT !.pending = d.total], BarIndex))

\* The call, given the result d of its loop.
DropCall(d, TileIndices, BarIndex) ==
    \E trap \in MayTrap(TileIndices # <<>> /\ IndexDividesByZero) :
       IF trap
       THEN Trapped("HandleScaryDrop", BarIndex, TileIndices, DropCost(TileIndices, BarIndex))
       ELSE /\ Called("HandleScaryDrop", BarIndex, TileIndices,
                      DropCost(TileIndices, BarIndex))
            /\ DropApply(d, BarIndex)
            /\ UNCHANGED <<scrollVars, DayStartTime>>

\* HandleScaryDrop(TileIndices, b) for every bar argument b (the loop does not
\* depend on b and is computed once).
HandleScaryDropAnyBar(d, TileIndices) ==
    \E b \in BarInputs : DropCall(d, TileIndices, b)

\* ATerminalActor::ApplyTrackballInput.  The axis values are floats in units of
\* 1/AxisOne; Delta is (Axis * -1.0f) * ScrollSensitivity.
Delta(Axis) == (Axis * (-1)) * ScrollSensitivity
\* One axis of the call computes exactly: no float result is rounded, the
\* conversion is in range and the int32 addition does not overflow.
ExactAxis(Acc, Scroll, Axis, t) ==
    /\ FRound(Delta(Axis)) = Delta(Axis)
    /\ FRound(Acc + Delta(Axis)) = Acc + Delta(Axis)
    /\ CQuot(Acc + Delta(Axis), AccUnit) \in IntMin .. IntMax
    /\ FRound(t * AccUnit) = t * AccUnit
    /\ FRound(Acc + Delta(Axis) - t * AccUnit) = Acc + Delta(Axis) - t * AccUnit
    /\ WrapInt(Scroll + t) = Scroll + t
\* Step 5 of ApplyTrackballInput: OnGridScrolled(), whatever the position
\* (x, y) the call leaves.
\* Step 3 of ApplyTrackballInput: Accumulator -= (int32)Accumulator, for the
\* accumulator a and the whole part t taken from it.
KeepAll(a, t) == a
KeepFraction(a, t) == FRound(a - IntToFloat(t))
ScrollNoticeIfMoved(x, y) ==
    IF x = ScrollX /\ y = ScrollY THEN <<>> ELSE <<Ev0("GridScrolled")>>
ScrollNotice(x, y) == <<Ev0("GridScrolled")>>
ApplyTrackballInput(AxisX, AxisY) ==
    \E trap \in MayTrap(MapDividesByZero) :
       IF trap
       THEN Trapped("ApplyTrackballInput", 0, <<AxisX, AxisY>>, 1)
       ELSE /\ Called("ApplyTrackballInput", 0, <<AxisX, AxisY>>, 1)
            /\ LET ax == FRound(AccumulatorX + FRound(Delta(AxisX)))
                   ay == FRound(AccumulatorY + FRound(Delta(AxisY)))
               IN  \E tx \in FloatToInt(ax), ty \in FloatToInt(ay) :
                     /\ ScrollX' = WrapCoord(WrapInt(ScrollX + tx), GlobalMapWidth)
                     /\ ScrollY' = WrapCoord(WrapInt(ScrollY + ty), GlobalMapHeight)
                     /\ AccumulatorX' = KeepFraction(ax, tx)
                     /\ AccumulatorY' = KeepFraction(ay, ty)
                     /\ stepSum' = <<stepSum[1] + tx, stepSum[2] + ty>>
                     /\ inexact' = (\/ inexact
                                    \/ ~ExactAxis(AccumulatorX, ScrollX, AxisX, tx)
                                    \/ ~ExactAxis(AccumulatorY, ScrollY, AxisY, ty))
            /\ deltaSum' = <<deltaSum[1] + Delta(AxisX), deltaSum[2] + Delta(AxisY)>>
            /\ events' = ScrollNotice(ScrollX', ScrollY')
            /\ UNCHANGED <<gridVars, progVars, DayStartTime, RandSeed>>

\* ATerminalActor::HighlightRandomPrime
HighlightRandomPrime ==
    /\ Called("HighlightRandomPrime", 0, <<>>, 1)
    /\ LET h == HighlightRandomPrimeOp(PrimeIndices, ScaryActive, RandSeed)
       IN  /\ ScaryActive' = h.scary
           /\ RandSeed' = h.seed
    /\ events' = <<>>
    /\ UNCHANGED <<GlobalGridNumbers, scrollVars, progVars, DayStartTime>>

\* The const queries change nothing; a query that divides by a zero dimension
\* may trap.
QueryNotifying(name, divides) ==
    /\ Called(name, 0, <<>>, 1)
    /\ events' = <<Ev0("GridScrolled")>>
    /\ UNCHANGED <<gridVars, scrollVars, progVars, DayStartTime, RandSeed>>
Query(name, divides) ==
    \E trap \in MayTrap(divides) :
       IF trap
       THEN Trapped(name, 0, <<>>, 1)
       ELSE /\ Called(name, 0, <<>>, 1)
            /\ events' = <<>>
            /\ UNCHANGED <<gridVars, scrollVars, progVars, DayStartTime, RandSeed>>

\* The queries on the bars divide nothing.
IsBarAvailableCall == Query("IsBarAvailable", FALSE)
IsBarFullCall == Query("IsBarFull", FALSE)
GetMasterProgressCall == Query("GetMasterProgress", FALSE)
GetBarCooldownRatioCall == Query("GetBarCooldownRatio", FALSE)
\* IsIndexScary calls GetGlobalIndexFromScreenIndex
IsIndexScaryCall == Query("IsIndexScary", IndexDividesByZero)
\* int32 ScreenX = ScreenIndex % GridWidth; ... % GlobalMapWidth; % GlobalMapHeight
GetGlobalIndexFromScreenIndexCall == Query("GetGlobalIndexFromScreenIndex", IndexDividesByZero)
\* GridX % GlobalMapWidth; GridY % GlobalMapHeight
GetGridNumberCall == Query("GetGridNumber", MapDividesByZero)
\* CenterIndex % GlobalMapWidth; CenterIndex / GlobalMapWidth
Get3x3GroupCall == Query("Get3x3Group", GlobalMapWidth = 0)
\* x % GlobalMapWidth and y % GlobalMapHeight in the scan, which always runs
GetSensorProximityValueCall == Query("GetSensorProximityValue", MapDividesByZero)

\* The grid specification: a 1 x 27 map under a 1 x 4 viewport, the host
\* dropping short selections and scrolling.
Init == InitWith(GridConfigs, 0 .. (GridSeeds - 1), MaxCalls)
Next ==
    \/ Tick
    \/ GenerateGrid
    \/ StartDay
    \/ EndDay
    \/ ResetProgressBars
    \/ OnFileWorkComplete
    \/ \E b \in BarInputs : ApplChunkToBar(b)
    \/ \E sel \in GridSelections : HandleScaryDropAnyBar(DropLoop(DropStart, sel, 1), sel)
    \/ \E a \in GridAxes : ApplyTrackballInput(a[1], a[2])
Spec == Init /\ [][Next]_vars

\* The day specification: a one-cell map, drops that fill a bar, both values
\* of FilesPerDay.
InitDay == InitWith(DayConfigs, 0 .. (DaySeeds - 1), MaxDayCalls)
NextDay ==
    \/ Tick
    \/ GenerateGrid
    \/ StartDay
    \/ EndDay
    \/ ResetProgressBars
    \/ OnFileWorkComplete
    \/ \E b \in BarInputs : ApplChunkToBar(b)
    \/ \E sel \in DaySelections : HandleScaryDropAnyBar(DropLoop(DropStart, sel, 1), sel)
    \/ \E a \in DayAxes : ApplyTrackballInput(a[1], a[2])
SpecDay == InitDay /\ [][NextDay]_vars

\* The configuration specification: every operation, the lookups included, on
\* maps and viewports of which one dimension may be zero.
InitCfg == InitWith(CfgConfigs, {0}, MaxCfgCalls)
NextCfg ==
    \/ Tick
    \/ GenerateGrid
    \/ StartDay
    \/ EndDay
    \/ ResetProgressBars
    \/ OnFileWorkComplete
    \/ \E b \in BarInputs : ApplChunkToBar(b)
    \/ \E sel \in CfgSelections : HandleScaryDropAnyBar(DropLoop(DropStart, sel, 1), sel)
    \/ \E a \in CfgAxes : ApplyTrackballInput(a[1], a[2])
    \/ GetGlobalIndexFromScreenIndexCall
    \/ GetGridNumberCall
    \/ Get3x3GroupCall
    \/ GetSensorProximityValueCall
    \/ IsBarAvailableCall
    \/ IsBarFullCall
    \/ GetMasterProgressCall
    \/ GetBarCooldownRatioCall
    \/ IsIndexScaryCall
    \/ HighlightRandomPrime
SpecCfg == InitCfg /\ [][NextCfg]_vars

\* The full specification: the day configurations under every operation of
\* the class, the const queries and HighlightRandomPrime included.
InitAll == InitWith(DayConfigs, 0 .. (DaySeeds - 1), MaxDayCalls)
NextAll ==
    \/ Tick
    \/ GenerateGrid
    \/ StartDay
    \/ EndDay
    \/ ResetProgressBars
    \/ OnFileWorkComplete
    \/ \E b \in BarInputs : ApplChunkToBar(b)
    \/ \E sel \in DaySelections : HandleScaryDropAnyBar(DropLoop(DropStart, sel, 1), sel)
    \/ \E a \in DayAxes : ApplyTrackballInput(a[1], a[2])
    \/ HighlightRandomPrime
    \/ GetGlobalIndexFromScreenIndexCall
    \/ GetGridNumberCall
    \/ Get3x3GroupCall
    \/ GetSensorProximityValueCall
    \/ IsBarAvailableCall
    \/ IsBarFullCall
    \/ GetMasterProgressCall
    \/ GetBarCooldownRatioCall
    \/ IsIndexScaryCall
SpecAll == InitAll /\ [][NextAll]_vars

\* The sensor specification: generation, scrolling, HighlightRandomPrime and
\* the const queries.
InitSensor == InitWith(SensorConfigs, 0 .. (SensorSeeds - 1), MaxSensorCalls)
NextSensor ==
    \/ GenerateGrid
    \/ \E a \in SensorAxes : ApplyTrackballInput(a[1], a[2])
    \/ HighlightRandomPrime
    \/ GetGlobalIndexFromScreenIndexCall
    \/ GetGridNumberCall
    \/ Get3x3GroupCall
    \/ GetSensorProximityValueCall
    \/ IsBarAvailableCall
    \/ IsBarFullCall
    \/ GetMasterProgressCall
    \/ GetBarCooldownRatioCall
    \/ IsIndexScaryCall
SpecSensor == InitSensor /\ [][NextSensor]_vars

\* The prime specification: HighlightRandomPrime as a function of the list it
\* reads, which no operation of the class fills: the list is an input of the
\* run, the empty list of the constructor among its values.
InitPrime == InitListed(GridConfigs, 0 .. (GridSeeds - 1), MaxPrimeCalls, PrimeLists)
NextPrime ==
    \/ GenerateGrid
    \/ HighlightRandomPrime
SpecPrime == InitPrime /\ [][NextPrime]_vars

\* The scroll specification: trackball input and the clock.
InitScroll == InitWith(ScrollConfigs, {0}, MaxScrollCalls)
NextScroll ==
    \/ Tick
    \/ \E a \in ScrollAxes : ApplyTrackballInput(a[1], a[2])
SpecScroll == InitScroll /\ [][NextScroll]_vars

\* ================================================================ claims
\* Notifications of the last call.
CountIn(evs, name) == Cardinality({ i \in DOMAIN evs : evs[i].ev = name })
HasIn(evs, name)   == \E i \in DOMAIN evs : evs[i].ev = name
ValidBar(b)        == b \in 0 .. (NumBars - 1)
ApplyingOps        == {"ApplChunkToBar", "HandleScaryDrop"}

\* The step is a call that raises the last open bar of an active day to 1.0.
FillsFourthBar ==
    /\ bDayActive
    /\ call'.op \in ApplyingOps
    /\ ValidBar(call'.bar)
    /\ ProgressBars[call'.bar] < One
    /\ \A j \in 0 .. (NumBars - 1) : j # call'.bar => ProgressBars[j] = One
    /\ \E i \in DOMAIN events' : events'[i] = Ev("ProgressUpdated", call'.bar, One)

\* C1: the call that fills the fourth bar of an active day emits exactly one
\* file-completion event and exactly one all-bars-full hook call, for
\* non-final and final files alike.
C1_FourthFillCompletesAndHooks ==
    [][ FillsFourthBar =>
          /\ CountIn(events', "FileCompleted") = 1
          /\ CountIn(events', "AllBarsFull") = 1 ]_vars

\* The step completes a file: position i of its notifications is
\* file-completed(count, target).
CompletesAt(i) ==
    /\ i \in DOMAIN events'
    /\ events'[i].ev = "FileCompleted"

\* C2: when a file completes with the incremented count below files-per-day,
\* file-completed(count, target) is followed by progress-updated(i, 0) for the
\* four bars and by the file-selection notification, all bars are 0 afterwards
\* and the day-active flag is as it was.
C2_NonFinalFileResets ==
    [][ \A i \in DOMAIN events' :
          (CompletesAt(i) /\ events'[i].a < events'[i].b) =>
             /\ events'[i] = Ev("FileCompleted", FilesRefinedCount + 1, FilesPerDay)
             /\ FilesRefinedCount' = FilesRefinedCount + 1
             /\ Len(events') >= i + NumBars + 1
             /\ \A j \in 0 .. (NumBars - 1) :
                   events'[i + 1 + j] = Ev("ProgressUpdated", j, 0)
             /\ events'[i + NumBars + 1] = Ev0("ShowFileSelection")
             /\ \A j \in 0 .. (NumBars - 1) : ProgressBars'[j] = 0
             /\ bDayActive' = bDayActive
             /\ ~HasIn(events', "DayComplete") ]_vars

C2_Witness ==
    /\ call.op = "HandleScaryDrop"
    /\ bDayActive
    /\ \E i \in DOMAIN events :
          events[i].ev = "FileCompleted" /\ events[i].a < events[i].b
    /\ HasIn(events, "ShowFileSelection")

\* C3: when a file completes with the incremented count at or above
\* files-per-day, day-active becomes false, day-complete(now - DayStartTime)
\* follows file-completed, and the bars are not reset: a direct completion
\* leaves them as they were, a completion through an applied chunk leaves
\* all four at 1.0.
C3_FinalFileEndsDay ==
    [][ \A i \in DOMAIN events' :
          (CompletesAt(i) /\ events'[i].a >= events'[i].b) =>
             /\ events'[i] = Ev("FileCompleted", FilesRefinedCount + 1, FilesPerDay)
             /\ bDayActive' = FALSE
             /\ Len(events') > i
             /\ events'[i + 1] = Ev("DayComplete", now - DayStartTime, 0)
             /\ ~HasIn(events', "ShowFileSelection")
             /\ call'.op = "OnFileWorkComplete" => ProgressBars' = ProgressBars
             /\ call'.op \in ApplyingOps =>
                   \A j \in 0 .. (NumBars - 1) : ProgressBars'[j] = One ]_vars

C3_Witness ==
    /\ call.op = "HandleScaryDrop"
    /\ ~bDayActive
    /\ \A j \in 0 .. (NumBars - 1) : ProgressBars[j] = One
    /\ \E i \in DOMAIN events : events[i] = Ev("DayComplete", now - DayStartTime, 0)
    /\ now > DayStartTime

\* C4: ApplChunkToBar(BarIndex) changes nothing and emits nothing when the day
\* is not active, or the pending chunk is not positive, or BarIndex is outside
\* 0..3, or the target bar is already at 1.0 or more.
C4_RejectedChunkIsNoOp ==
    [][ ( /\ call'.op = "ApplChunkToBar"
          /\ \/ ~bDayActive
             \/ PendingChunkValue <= 0
             \/ ~ValidBar(call'.bar)
             \/ ProgressBars[call'.bar] >= One )
        => /\ UNCHANGED <<progVars, gridVars, scrollVars, DayStartTime, RandSeed>>
           /\ events' = <<>> ]_vars

C4_Witness ==
    /\ call.op = "ApplChunkToBar"
    /\ bDayActive
    /\ PendingChunkValue > 0
    /\ ValidBar(call.bar)
    /\ ProgressBars[call.bar] >= One
    /\ events = <<>>

\* The chunk a drop of selection sel computes, from the state before the call:
\* entry k is worth the value its cell holds when it is processed, which is
\* the grid value (four times that for a scary cell) for a cell met for the
\* first time, and the value drawn for it at its latest earlier entry, with no
\* bonus, for a cell met again.
CellOf(ScreenIdx) == GetGlobalIndexFromScreenIndex(ScreenIdx)
Credited(sel, k)  == IsValidIndex(GlobalGridNumbers, CellOf(sel[k]))
\* Every screen index wraps to a cell of the map, so once one entry is credited
\* all entries before it were too, one draw each.
DrawsBefore(sel, k) == k - 1
RECURSIVE LatestEarlier(_, _, _)
LatestEarlier(sel, k, j) ==
    IF j = 0 THEN 0
    ELSE IF CellOf(sel[j]) = CellOf(sel[k]) THEN j
    ELSE LatestEarlier(sel, k, j - 1)
WorthAfter(sel, k, j) ==
    IF j = 0
    THEN (IF IsValidIndex(ScaryActive, CellOf(sel[k])) /\ ScaryActive[CellOf(sel[k])]
          THEN 8 ELSE 2) * GlobalGridNumbers[CellOf(sel[k])]
    ELSE 2 * (RandLo + (SeedAfter(RandSeed, DrawsBefore(sel, j)) * (RandHi - RandLo + 1))
                          \div RandMod)
EntryWorth(sel, k) ==
    IF ~Credited(sel, k) THEN 0 ELSE WorthAfter(sel, k, LatestEarlier(sel, k, k - 1))
RECURSIVE SumWorth(_, _)
SumWorth(sel, k) == IF k = 0 THEN 0 ELSE SumWorth(sel, k - 1) + EntryWorth(sel, k)
ChunkOfDrop(sel) == SumWorth(sel, Len(sel))

\* The chunk the call of this step hands to the bar, and whether the bar takes it.
ChunkOfCall ==
    IF call'.op = "ApplChunkToBar" THEN PendingChunkValue ELSE ChunkOfDrop(call'.sel)
BarOpen ==
    /\ bDayActive
    /\ ValidBar(call'.bar)
    /\ ProgressBars[call'.bar] < One
Accepted(c) == BarOpen /\ c > 0
BarAfter(c) == Min(One, ProgressBars[call'.bar] + (3 * c) \div 2)
NonFinalCompletion ==
    \E i \in DOMAIN events' : events'[i].ev = "FileCompleted" /\ events'[i].a < events'[i].b

\* What the sentence says of an accepted chunk c, and what the code does.
SetsBar(c) ==
    Accepted(c) =>
       /\ ProgressBars' = [ProgressBars EXCEPT ![call'.bar] = BarAfter(c)]
       /\ PendingChunkValue' = 0
SetsBarUnlessReset(c) ==
    Accepted(c) =>
       /\ Len(events') >= 2
       /\ events'[1] = Ev0("ChunkConsumed")
       /\ events'[2] = Ev("ProgressUpdated", call'.bar, BarAfter(c))
       /\ PendingChunkValue' = 0
       /\ IF NonFinalCompletion
          THEN \A j \in 0 .. (NumBars - 1) : ProgressBars'[j] = 0
          ELSE ProgressBars' = [ProgressBars EXCEPT ![call'.bar] = BarAfter(c)]

\* C5: as stated.  When applyChunk is not a no-op the target bar becomes
\* min(1, oldBar + pendingChunk * 1.5), every other bar is unchanged and the
\* pending chunk is 0 afterwards.
C5_AppliedChunkSetsBar ==
    [][ (call'.op \in ApplyingOps /\ BarOpen) =>
          \A c \in {ChunkOfCall} : SetsBar(c) ]_vars

\* C5, amended: when applyChunk is not a no-op, chunk-consumed and
\* progress-updated(bar, min(1, oldBar + pendingChunk * 1.5)) are emitted and
\* the pending chunk is 0 afterwards; the target bar holds that value and the
\* other bars are unchanged when the call returns, unless the application
\* completed a non-final file, in which case all four bars are 0.
C5_AppliedChunkSetsBarUnlessReset ==
    [][ (call'.op \in ApplyingOps /\ BarOpen) =>
          \A c \in {ChunkOfCall} : SetsBarUnlessReset(c) ]_vars

\* One non-scary tile of value 9 dropped on an empty bar: the bar is at 0.0675.
C5_Witness ==
    /\ call.op = "HandleScaryDrop"
    /\ Len(call.sel) = 1
    /\ ValidBar(call.bar)
    /\ ProgressBars[call.bar] = 27
    /\ events[2] = Ev("ProgressUpdated", call.bar, 27)
    /\ \A j \in 0 .. (NumBars - 1) : j # call.bar => ProgressBars[j] = 0

\* C6: in every reachable state there are exactly four progress bars and each
\* has a value in [0, 1].
C6_BarsInUnitRange ==
    /\ DOMAIN ProgressBars = 0 .. (NumBars - 1)
    /\ \A i \in DOMAIN ProgressBars : 0 <= ProgressBars[i] /\ ProgressBars[i] <= One

\* A long drop on a bar that already held progress: the sum passes 1.0.
C6_Witness ==
    /\ call.op = "HandleScaryDrop"
    /\ call.sel = LongSelection
    /\ ValidBar(call.bar)
    /\ ProgressBars[call.bar] = One
    /\ \E j \in 0 .. (NumBars - 1) : 0 < ProgressBars[j] /\ ProgressBars[j] < One

\* C7: once GenerateGrid has run, every cell of the global grid holds a value
\* in [1, 9], also after drops have consumed and respawned cells.
C7_CellsInRange ==
    GlobalGridNumbers # <<>> =>
       /\ DOMAIN GlobalGridNumbers = 0 .. (GlobalMapWidth * GlobalMapHeight - 1)
       /\ \A i \in DOMAIN GlobalGridNumbers :
             RandLo <= GlobalGridNumbers[i] /\ GlobalGridNumbers[i] <= RandHi

C7_Witness ==
    /\ call.op = "HandleScaryDrop"
    /\ Len(call.sel) = 2
    /\ GlobalGridNumbers # <<>>
    /\ PendingChunkValue > 0

\* C8: after GenerateGrid, for every positive configured size, the grid and
\* the flag array have width * height entries and exactly
\* ceil(width / 50) * ceil(height / 50) scary flags are set.
C8_OneScaryPerSector ==
    call.op \in {"GenerateGrid", "StartDay"} =>
       /\ DOMAIN GlobalGridNumbers = 0 .. (GlobalMapWidth * GlobalMapHeight - 1)
       /\ DOMAIN ScaryActive = 0 .. (GlobalMapWidth * GlobalMapHeight - 1)
       /\ Cardinality({ i \in DOMAIN ScaryActive : ScaryActive[i] })
            = CeilDiv(GlobalMapWidth, SectorSize) * CeilDiv(GlobalMapHeight, SectorSize)

\* What a drop shows of the chunk c it computed: an accepted chunk is
\* reported on the bar, a rejected one stays pending and no bar changes.
ChunkShown(c) ==
    IF Accepted(c)
    THEN /\ PendingChunkValue' = 0
         /\ Len(events') >= 2
         /\ events'[2] = Ev("ProgressUpdated", call'.bar, BarAfter(c))
    ELSE /\ PendingChunkValue' = c
         /\ ProgressBars' = ProgressBars
         /\ events' = <<Ev0("GridScrolled")>>

ScaryCell(g) == IsValidIndex(ScaryActive, g) /\ IsValidIndex(GlobalGridNumbers, g) /\ ScaryActive[g]

\* C9: a drop whose selection contains a scary tile of value v clears that
\* cell's flag and leaves it a value in [1, 9], whether or not the bar accepts
\* the chunk; a selection of that tile alone is worth v * 0.005 * 4.
C9_ScaryTileConsumed ==
    [][ call'.op = "HandleScaryDrop" =>
          \A k \in DOMAIN call'.sel :
             ScaryCell(CellOf(call'.sel[k])) =>
                /\ ~ScaryActive'[CellOf(call'.sel[k])]
                /\ GlobalGridNumbers'[CellOf(call'.sel[k])] \in RandLo .. RandHi
                /\ Len(call'.sel) = 1 =>
                      ChunkShown(8 * GlobalGridNumbers[CellOf(call'.sel[k])]) ]_vars

\* A scary tile of value 4 dropped alone while the day is not active: 0.08 pending.
C9_Witness ==
    /\ call.op = "HandleScaryDrop"
    /\ Len(call.sel) = 1
    /\ ~bDayActive
    /\ PendingChunkValue = 32
    /\ \A i \in DOMAIN ScaryActive : ~ScaryActive[i]

\* C10: the chunk of a drop is the sum, over the entries in order, of the
\* value of the cell when the entry is processed times 0.005, times 4 if the
\* cell is scary at that moment; a repeated index is credited again with the
\* respawned value and without the bonus.
C10_ChunkIsSumInOrder ==
    [][ call'.op = "HandleScaryDrop" =>
          \A c \in {ChunkOfDrop(call'.sel)} : ChunkShown(c) ]_vars

\* The same index twice, the first time scary: more than two plain tiles can give.
C10_Witness ==
    /\ call.op = "HandleScaryDrop"
    /\ Len(call.sel) = 2
    /\ call.sel[1] = call.sel[2]
    /\ PendingChunkValue > 4 * RandHi


\* ---------------------------------------------------------------- C11
InvalidBars == BarInputs \ (0 .. (NumBars - 1))
InvalidBarCall(op) == call'.op = op /\ ~ValidBar(call'.bar)

\* The three queries on a bar index outside 0..3.
InvalidBarQueries ==
    \A b \in InvalidBars :
        ~IsBarAvailable(b) /\ ~IsBarFull(b) /\ GetBarCooldownRatio(b) = 0

InViewport(ScreenIdx) == ScreenIdx \in 0 .. (GridWidth * GridHeight - 1)
InViewportOnly(sel)   == SelectSeq(sel, InViewport)
CellsOf(sel) == { CellOf(sel[k]) : k \in DOMAIN sel }

\* C12: HandleScaryDrop skips the entries of the selection that are not screen
\* indices of the viewport: the chunk is the chunk of the remaining entries
\* and only the cells those address change value or flag; an empty selection
\* gives chunk 0 and changes no bar.
C12_MalformedSelectionSkipped ==
    [][ call'.op = "HandleScaryDrop" =>
          /\ \A c \in {ChunkOfDrop(InViewportOnly(call'.sel))} : ChunkShown(c)
          /\ \A g \in DOMAIN GlobalGridNumbers \ CellsOf(InViewportOnly(call'.sel)) :
                /\ GlobalGridNumbers'[g] = GlobalGridNumbers[g]
                /\ ScaryActive'[g] = ScaryActive[g]
          /\ call'.sel = <<>> => UNCHANGED ProgressBars
      ]_vars


\* ---------------------------------------------------------------- C13
\* C13: no call stops the process, whatever the configured dimensions: no
\* operation divides by a zero map or viewport dimension.
C13_NoConditionIsFatal == ~fatal


\* ---------------------------------------------------------------- C14
\* C14: on a map of positive size the scroll position is a cell of the map in
\* every reachable state, the state the constructor leaves included:
\* 0 <= ScrollX < GlobalMapWidth and 0 <= ScrollY < GlobalMapHeight.
C14_ScrollInRange ==
    (GlobalMapWidth > 0 /\ GlobalMapHeight > 0) =>
        /\ ScrollX \in 0 .. (GlobalMapWidth - 1)
        /\ ScrollY \in 0 .. (GlobalMapHeight - 1)


\* ---------------------------------------------------------------- C15
Scrolled == call.op = "ApplyTrackballInput" /\ ~fatal

\* C15: after every ApplyTrackballInput each accumulator is strictly between
\* -1 and 1, whatever the magnitude and sign of the input.
C15_AccumulatorIsFraction ==
    Scrolled => /\ Abs(AccumulatorX) < AccUnit
                /\ Abs(AccumulatorY) < AccUnit

\* ---------------------------------------------------------------- C16
Axes == {1, 2}
AccumulatorOf(i) == IF i = 1 THEN AccumulatorX ELSE AccumulatorY
ScrollOf(i)      == IF i = 1 THEN ScrollX ELSE ScrollY
MapSizeOf(i)     == IF i = 1 THEN GlobalMapWidth ELSE GlobalMapHeight

\* The calls since construction (zero accumulators) have moved axis i by
\* steps whole cells and left nothing in the accumulator.
NetSteps(i, steps) ==
    /\ stepSum[i] = steps
    /\ AccumulatorOf(i) = 0
    /\ Scrolled => ScrollOf(i) = WrapCoord(CtorScroll + steps, MapSizeOf(i))

\* C16 (as stated): calls whose deltas on an axis sum to exactly 1.0 move that
\* axis by exactly one step and leave its accumulator at 0; calls whose
\* deltas sum to 0 leave the scroll position where it was.
C16_DeltasOfOneMakeOneStep ==
    \A i \in Axes :
        /\ deltaSum[i] = AccUnit => NetSteps(i, 1)
        /\ deltaSum[i] = 0 => stepSum[i] = 0 /\ ScrollOf(i) = CtorScroll

\* C16 (amended): the same, for calls all of whose float and int32 operations
\* are exact.
C16_ExactDeltasOfOneMakeOneStep ==
    ~inexact =>
        \A i \in Axes :
            /\ deltaSum[i] = AccUnit => NetSteps(i, 1)
            /\ deltaSum[i] = 0 => stepSum[i] = 0 /\ ScrollOf(i) = CtorScroll

\* Four exact calls, the last of 6/16 on the y axis, have summed to 1.0 and
\* stepped across the edge of the map.
C16_Witness ==
    /\ ~inexact
    /\ calls = MaxScrollCalls - 4
    /\ deltaSum[2] = AccUnit
    /\ call.op = "ApplyTrackballInput"
    /\ Delta(call.sel[2]) = 6
    /\ ScrollY = 0
    /\ AccumulatorY = 0


\* ---------------------------------------------------------------- C17
Coords == -MaxCoord .. MaxCoord
PositiveMap == GlobalMapWidth > 0 /\ GlobalMapHeight > 0
Cells == 0 .. (GlobalMapWidth * GlobalMapHeight - 1)
Generated == DOMAIN GlobalGridNumbers = Cells /\ Cells # {}
\* The cell GetGridNumber(GridX, GridY) reads.
CellAt(GridX, GridY) ==
    WrapCoord(GridY, GlobalMapHeight) * GlobalMapWidth + WrapCoord(GridX, GlobalMapWidth)

\* C17: on a map of positive size the wrapped coordinate lies in [0, N) and
\* is the same for x, x + N and x - N; GetGridNumber is periodic in both
\* directions and reads a cell of the map (a value in [1, 9] once generated).
C17_WrapIsFlooredModulo ==
    PositiveMap =>
      \A x \in Coords, y \in Coords :
        /\ WrapCoord(x, GlobalMapWidth) \in 0 .. (GlobalMapWidth - 1)
        /\ WrapCoord(y, GlobalMapHeight) \in 0 .. (GlobalMapHeight - 1)
        /\ WrapCoord(x + GlobalMapWidth, GlobalMapWidth) = WrapCoord(x, GlobalMapWidth)
        /\ WrapCoord(x - GlobalMapWidth, GlobalMapWidth) = WrapCoord(x, GlobalMapWidth)
        /\ WrapCoord(y + GlobalMapHeight, GlobalMapHeight) = WrapCoord(y, GlobalMapHeight)
        /\ WrapCoord(y - GlobalMapHeight, GlobalMapHeight) = WrapCoord(y, GlobalMapHeight)
        /\ WrapCoord(y, GlobalMapHeight) = y % GlobalMapHeight
        /\ \A v \in {GetGridNumber(x, y)} :
              /\ GetGridNumber(x + GlobalMapWidth, y) = v
              /\ GetGridNumber(x - GlobalMapWidth, y) = v
              /\ GetGridNumber(x, y + GlobalMapHeight) = v
              /\ GetGridNumber(x, y - GlobalMapHeight) = v
              /\ CellAt(x, y) \in Cells
              /\ Generated => v = GlobalGridNumbers[CellAt(x, y)] /\ v \in RandLo .. RandHi

\* On a generated grid the cell above row 0 is the last row, whose value
\* differs from that of row 0.
C17_Witness ==
    /\ Generated
    /\ GetGridNumber(0, -1) = GlobalGridNumbers[(GlobalMapHeight - 1) * GlobalMapWidth]
    /\ GetGridNumber(0, -1) # GetGridNumber(0, 0)

\* ---------------------------------------------------------------- C18
ScreenIndices == 0 .. (GridWidth * GridHeight - 1)
ColumnOf(i) == i % GridWidth
RowOf(i)    == i \div GridWidth

\* C18: for every screen index i of the viewport,
\* GetGlobalIndexFromScreenIndex(i) is the floored-modulo image of
\* (ScrollX + ColumnOf(i), ScrollY + i / GridWidth), a cell of the map, and
\* the cell GetGridNumber reads at those coordinates.
C18_ScreenIndexAddressesCell ==
    (PositiveMap /\ GridWidth > 0) =>
      \A i \in ScreenIndices :
        \A g \in {GetGlobalIndexFromScreenIndex(i)} :
          /\ g = ((ScrollY + RowOf(i)) % GlobalMapHeight) * GlobalMapWidth
                   + ((ScrollX + ColumnOf(i)) % GlobalMapWidth)
          /\ g \in Cells
          /\ g = CellAt(ScrollX + ColumnOf(i), ScrollY + RowOf(i))
          /\ Generated =>
               GetGridNumber(ScrollX + ColumnOf(i), ScrollY + RowOf(i))
                 = GlobalGridNumbers[g]

\* After a scroll the viewport lies across both wrap seams of a generated
\* grid: its last screen index is cell 0 of the map.
C18_Witness ==
    /\ Generated
    /\ call.op = "ApplyTrackballInput"
    /\ ScrollX = GlobalMapWidth - 1
    /\ ScrollY = GlobalMapHeight - 1
    /\ GridWidth = 2 /\ GridHeight = 3
    /\ GetGlobalIndexFromScreenIndex(3) = 0
    /\ GetGridNumber(ScrollX + 1, ScrollY + 1) = GlobalGridNumbers[0]


\* ---------------------------------------------------------------- C19
\* The cells of the sector whose corner is (x0, y0).
SectorCells(x0, y0) ==
    { y * GlobalMapWidth + x :
        x \in x0 .. (Min(x0 + SectorSize, GlobalMapWidth) - 1),
        y \in y0 .. (Min(y0 + SectorSize, GlobalMapHeight) - 1) }
SectorCorners ==
    { <<sx * SectorSize, sy * SectorSize>> :
        sx \in 0 .. (SectorsX - 1), sy \in 0 .. (SectorsY - 1) }

\* C19: when StartDay returns the day is active, DayStartTime is the current
\* time, the grid is fresh (every cell in [1, 9], exactly one scary flag in
\* every sector and none left from before) and grid-scrolled, then
\* day-started, have been emitted.
C19_StartDayRegenerates ==
    call.op = "StartDay" =>
       /\ bDayActive
       /\ DayStartTime = now
       /\ events = <<Ev0("GridScrolled"), Ev0("DayStarted")>>
       /\ DOMAIN GlobalGridNumbers = Cells
       /\ DOMAIN ScaryActive = Cells
       /\ \A i \in Cells : GlobalGridNumbers[i] \in RandLo .. RandHi
       /\ \A c \in SectorCorners :
             Cardinality({ i \in SectorCells(c[1], c[2]) : ScaryActive[i] }) = 1


\* ---------------------------------------------------------------- C20
\* C20: when StartDay returns, also after a completed or ended day, the count
\* of refined files is 0.
C20_StartDayResetsFileCount ==
    call.op = "StartDay" => FilesRefinedCount = 0

\* ---------------------------------------------------------------- C21
\* The last call began a file: it is StartDay, or it completed a file that
\* was not the last of its day.
BeginsFile ==
    \/ call.op = "StartDay"
    \/ \E i \in DOMAIN events :
          events[i].ev = "FileCompleted" /\ events[i].a < events[i].b

\* C21: whenever a new file begins, after StartDay and after each non-final
\* file completion, all four progress bars are 0.
C21_BarsZeroAtFileStart ==
    (BeginsFile /\ ~fatal) => \A j \in 0 .. (NumBars - 1) : ProgressBars[j] = 0

\* ---------------------------------------------------------------- C22
QueryOps == {"IsBarAvailable", "IsBarFull", "GetMasterProgress", "GetBarCooldownRatio",
             "GetSensorProximityValue", "IsIndexScary", "GetGridNumber",
             "GetGlobalIndexFromScreenIndex", "Get3x3Group"}
\* The operations that are no transition of the day.
DayFrameOps == QueryOps \cup {"ApplyTrackballInput", "GenerateGrid",
                              "HighlightRandomPrime", "ResetProgressBars"}
\* The step completed a file whose count reached the target.
CompletesFinalFile ==
    \E i \in DOMAIN events' : events'[i].ev = "FileCompleted" /\ events'[i].a >= events'[i].b

QueryResults ==
    << [b \in BarInputs |-> <<IsBarAvailable(b), IsBarFull(b), GetBarCooldownRatio(b)>>],
       GetMasterProgress(ProgressBars),
       GetSensorProximityValue,
       [i \in ScreenInputs |-> <<IsIndexScary(i), GetGlobalIndexFromScreenIndex(i)>>],
       [c \in Coords \X Coords |-> GetGridNumber(c[1], c[2])],
       [i \in DOMAIN GlobalGridNumbers |-> Get3x3Group(i)] >>

\* C24: a call of IsBarAvailable, IsBarFull, GetMasterProgress,
\* GetBarCooldownRatio, GetSensorProximityValue, IsIndexScary, GetGridNumber,
\* GetGlobalIndexFromScreenIndex or Get3x3Group changes no state and emits no
\* notification, and every query returns after it what it returned before.
C24_QueriesArePure ==
    [][ call'.op \in QueryOps =>
          /\ UNCHANGED <<cfgVars, gridVars, scrollVars, progVars, coolVars,
                         DayStartTime, RandSeed, now, PrimeIndices>>
          /\ events' = <<>>
          /\ QueryResults' = QueryResults ]_vars

\* The sensor was read next to a scary tile, half a step off a whole tile.
C24_Witness ==
    /\ call.op = "GetSensorProximityValue"
    /\ ~fatal
    /\ events = <<>>
    /\ GetSensorProximityValue \in 1 .. (One - 1)
    /\ AccumulatorX # 0

\* ---------------------------------------------------------------- C25
\* The continuous centre of the viewport, scroll + accumulator +
\* (viewport size / 2 - 0.5), in units of 1/AccUnit tile.
ViewCenterX == ScrollX * AccUnit + AccumulatorX + (GridWidth * AccUnit) \div 2 - AccUnit \div 2
ViewCenterY == ScrollY * AccUnit + AccumulatorY + (GridHeight * AccUnit) \div 2 - AccUnit \div 2
\* The cell the unwrapped coordinates (x, y) wrap to is scary.
ScaryAt(x, y) ==
    \E GlobalIdx \in {WrapCoord(y, GlobalMapHeight) * GlobalMapWidth + WrapCoord(x, GlobalMapWidth)} :
       IsValidIndex(ScaryActive, GlobalIdx) /\ ScaryActive[GlobalIdx]
ScaryAtViewCenter ==
    /\ ViewCenterX % AccUnit = 0
    /\ ViewCenterY % AccUnit = 0
    /\ ScaryAt(ViewCenterX \div AccUnit, ViewCenterY \div AccUnit)
\* Some image of a scary tile is no farther than the maximum distance from
\* the centre of the viewport.
Around(Scroll) == (Scroll - 2 * SearchRadius) .. (Scroll + 2 * SearchRadius + ScanExtent)
ScaryNearViewCenter ==
    \E x \in Around(ScrollX), y \in Around(ScrollY) :
       /\ Square(x * AccUnit - ViewCenterX) + Square(y * AccUnit - ViewCenterY) <= MaxDistSq
       /\ ScaryAt(x, y)

\* C25: GetSensorProximityValue returns a value in [0, 1]; 1.0 when a scary
\* tile lies exactly at the continuous centre of the viewport; 0.0 when every
\* scary tile is farther than the maximum distance from that centre.
C25_ProximityRangeAndEnds ==
    /\ GetSensorProximityValue \in 0 .. One
    /\ ScaryAtViewCenter => GetSensorProximityValue = One
    /\ ~ScaryNearViewCenter => GetSensorProximityValue = 0

\* ---------------------------------------------------------------- C26
\* The toroidal offset of cell g from the scroll position, on one axis.
OffsetX(g) == WrapCoord((g % GlobalMapWidth) - ScrollX, GlobalMapWidth)
OffsetY(g) == WrapCoord((g \div GlobalMapWidth) - ScrollY, GlobalMapHeight)
\* The steps from the scroll position, inside the scan, that lead to a cell
\* at toroidal offset d on an axis of the given size.
StepsTo(d, Size) ==
    { k \in (-SearchRadius) .. (SearchRadius + ScanExtent) : WrapCoord(k - d, Size) = 0 }
\* The squared distance of the nearest such cell, from the offsets and the
\* accumulators alone.
OffsetDistSq(dx, dy) ==
    Least({MaxDistSq} \cup
          { Square(k * AccUnit - AccumulatorX - CenterOffset)
              + Square(l * AccUnit - AccumulatorY - CenterOffset) :
              k \in StepsTo(dx, GlobalMapWidth), l \in StepsTo(dy, GlobalMapHeight) })
ScaryCells == { g \in DOMAIN ScaryActive : ScaryActive[g] }

\* C26: the squared distance the sensor uses for a scary tile depends on the
\* tile's toroidal offset from the scroll position and on the accumulators
\* only, not on the scroll position itself: it is measured with the unwrapped
\* scan coordinates, also where the scan runs below 0 or beyond the last
\* column or row.
C26_DistanceIsSeamless ==
    PositiveMap =>
       MinDistSq = Least({MaxDistSq} \cup
                         { OffsetDistSq(OffsetX(g), OffsetY(g)) : g \in ScaryCells })

\* After a scroll the nearest scary tile is seen across the seam: the scanned
\* column that gives the least distance is beyond the last column of the map.
C26_Witness ==
    /\ call.op = "ApplyTrackballInput"
    /\ ~fatal
    /\ ScrollX \in 0 .. (GlobalMapWidth - 1)
    /\ ScrollY \in 0 .. (GlobalMapHeight - 1)
    /\ GlobalMapWidth > 1
    /\ MinDistSq < MaxDistSq
    /\ \E c \in ScanRange(ScrollX, GlobalMapWidth), r \in ScanRange(ScrollY, GlobalMapHeight) :
          /\ ScaryAt(c[1], r[1])
          /\ ScanDistSq(c[1], r[1], c[2], r[2]) = MinDistSq
          /\ c[1] > GlobalMapWidth - 1

\* ---------------------------------------------------------------- C27
PrimeCells == { i \in DOMAIN GlobalGridNumbers : IsPrime(GlobalGridNumbers[i]) }
Listed == { PrimeIndices[k] : k \in DOMAIN PrimeIndices }

\* C27: when GenerateGrid returns, PrimeIndices holds exactly the indices of
\* the cells whose value is 2, 3, 5 or 7.
C27_PrimesListedAtGeneration ==
    (call.op = "GenerateGrid" /\ ~fatal) => Listed = PrimeCells

\* ---------------------------------------------------------------- C28
\* The indices HighlightRandomPrime may choose: listed, valid, not scary.
Candidates == { i \in Listed : IsValidIndex(ScaryActive, i) /\ ~ScaryActive[i] }

\* C28: a call of HighlightRandomPrime sets at most one scary flag, and only
\* at a listed, valid index that was not scary; without such an index it
\* changes nothing; it clears no flag and leaves grid values, bars, scroll
\* and day state alone.
C28_HighlightSetsOneListedFlag ==
    [][ call'.op = "HighlightRandomPrime" =>
          /\ DOMAIN ScaryActive' = DOMAIN ScaryActive
          /\ \A i \in DOMAIN ScaryActive : ScaryActive[i] => ScaryActive'[i]
          /\ Cardinality({ i \in DOMAIN ScaryActive : ScaryActive'[i] # ScaryActive[i] }) <= 1
          /\ \A i \in DOMAIN ScaryActive : ScaryActive'[i] # ScaryActive[i] => i \in Candidates
          /\ Candidates = {} => UNCHANGED <<ScaryActive, RandSeed>>
          /\ events' = <<>>
          /\ UNCHANGED <<cfgVars, GlobalGridNumbers, scrollVars, progVars, coolVars,
                         DayStartTime, now, PrimeIndices>> ]_vars

\* The call set a flag in a generated map: more flags are set than the one
\* the generation of a one-sector map leaves.
C28_Witness ==
    /\ call.op = "HighlightRandomPrime"
    /\ Generated
    /\ Cardinality(ScaryCells) >= 2
    /\ ScaryCells \cap Listed # {}

\* ---------------------------------------------------------------- C29
\* C29: in every reachable state, the state the constructor leaves included,
\* ScaryActive has one flag for each cell of GlobalGridNumbers and no other.
C29_FlagsParallelToGrid ==
    ~fatal => DOMAIN ScaryActive = DOMAIN GlobalGridNumbers

\* ---------------------------------------------------------------- C30
\* Column and row of a cell of the map.
CellX(i) == i % GlobalMapWidth
CellY(i) == i \div GlobalMapWidth
\* The cells of the map in the 3 x 3 block around cell c.
Block(c) ==
    { y * GlobalMapWidth + x :
        x \in ((CellX(c) - 1) .. (CellX(c) + 1)) \cap (0 .. (GlobalMapWidth - 1)),
        y \in ((CellY(c) - 1) .. (CellY(c) + 1)) \cap (0 .. (GlobalMapHeight - 1)) }
\* How many of the three columns (rows) of the block the map cuts off.
CutColumns(c) == (IF CellX(c) = 0 THEN 1 ELSE 0) + (IF CellX(c) = GlobalMapWidth - 1 THEN 1 ELSE 0)
CutRows(c)    == (IF CellY(c) = 0 THEN 1 ELSE 0) + (IF CellY(c) = GlobalMapHeight - 1 THEN 1 ELSE 0)

C31_ScrollAlwaysNotifies ==
    [][ call'.op = "ApplyTrackballInput" => events' = <<Ev0("GridScrolled")>> ]_vars

\* A call moved an accumulator and took no whole step.
C31_Witness ==
    /\ call.op = "ApplyTrackballInput"
    /\ calls = MaxScrollCalls - 1
    /\ ScrollX = CtorScroll /\ ScrollY = CtorScroll
    /\ AccumulatorY # 0
    /\ stepSum = <<0, 0>>
    /\ events = <<Ev0("GridScrolled")>>

\* ---------------------------------------------------------------- C32
\* C32: when HandleScaryDrop returns no chunk is pending, also when the drop
\* was made in an inactive day, onto a full bar or onto an invalid bar index.
C32_NoChunkPendingAfterDrop ==
    (call.op = "HandleScaryDrop" /\ ~fatal) => PendingChunkValue = 0

\* ---------------------------------------------------------------- C33
\* The notifications of the step that ApplChunkToBar emitted: all of them,
\* but for the grid-scrolled notification that ends a drop.
ChunkEvents ==
    IF call'.op = "HandleScaryDrop" THEN SubSeq(events', 1, Len(events') - 1) ELSE events'
\* The file-completion notifications of a completion in the state before the
\* step: file-completed, then day-complete or the reset and file selection.
CompletionEvents ==
    <<Ev("FileCompleted", FilesRefinedCount + 1, FilesPerDay)>> \o
    (IF FilesRefinedCount + 1 >= FilesPerDay
     THEN <<Ev("DayComplete", now - DayStartTime, 0)>>
     ELSE [j \in 1 .. NumBars |-> Ev("ProgressUpdated", j - 1, 0)]
          \o <<Ev0("ShowFileSelection")>>)

\* C33: a call that applies a chunk emits chunk-consumed, then
\* progress-updated(bar, new value), then the file-completion notifications if
\* the master progress has reached 1.0, then the all-bars-full hook if all
\* bars are at 1.0 at that point; both tests are made on every applying call.
C33_ApplyingCallOrder ==
    [][ (call'.op \in ApplyingOps /\ HasIn(events', "ChunkConsumed")) =>
          \E v \in 0 .. One :
             /\ Len(ChunkEvents) >= 2
             /\ ChunkEvents[1] = Ev0("ChunkConsumed")
             /\ ChunkEvents[2] = Ev("ProgressUpdated", call'.bar, v)
             /\ SubSeq(ChunkEvents, 3, Len(ChunkEvents)) =
                   (IF SumBars([ProgressBars EXCEPT ![call'.bar] = v]) >= MasterOne
                    THEN CompletionEvents ELSE <<>>)
                   \o (IF \A j \in 0 .. (NumBars - 1) : ProgressBars'[j] >= One
                       THEN <<Ev0("AllBarsFull")>> ELSE <<>>) ]_vars

\* A chunk was applied, the last file of the day completed and the hook ran.
C33_Witness ==
    /\ call.op \in ApplyingOps
    /\ Len(events) >= 5
    /\ events[1] = Ev0("ChunkConsumed")
    /\ events[2] = Ev("ProgressUpdated", call.bar, One)
    /\ events[3].ev = "FileCompleted"
    /\ events[4].ev = "DayComplete"
    /\ events[5] = Ev0("AllBarsFull")

\* ---------------------------------------------------------------- C34
\* C34: every HandleScaryDrop call emits grid-scrolled exactly once, as the
\* last notification of the call: after those of the chunk application and of
\* a file or day completion, and also when the selection is empty or the chunk
\* is rejected.
C34_DropEndsWithOneScrollNotice ==
    [][ call'.op = "HandleScaryDrop" =>
          /\ events' # <<>>
          /\ events'[Len(events')] = Ev0("GridScrolled")
          /\ Cardinality({ i \in DOMAIN events' : events'[i].ev = "GridScrolled" }) = 1 ]_vars

\* A drop completed a file: the notifications of the chunk and of the
\* completion came first, grid-scrolled last.
C34_Witness ==
    /\ call.op = "HandleScaryDrop"
    /\ Len(events) >= 4
    /\ events[1] = Ev0("ChunkConsumed")
    /\ HasIn(events, "FileCompleted")
    /\ events[Len(events)] = Ev0("GridScrolled")

\* ---------------------------------------------------------------- C35
\* The sector specification: maps of one and two whole sectors, generation
\* from every state of the random stream, drops that consume tiles.
InitSector == InitWith(SectorConfigs, 0 .. (RandMod - 1), MaxSectorCalls)
NextSector ==
    \/ GenerateGrid
    \/ StartDay
    \/ HandleScaryDropAnyBar(DropLoop(DropStart, <<0>>, 1), <<0>>)
SpecSector == InitSector /\ [][NextSector]_vars

\* The sector of a cell, and the toroidal distance of two coordinates.
SectorOf(i) == <<CellX(i) \div SectorSize, CellY(i) \div SectorSize>>
TorusGap(a, b, Size) ==
    LET d == IF a >= b THEN a - b ELSE b - a IN IF d <= Size - d THEN d ELSE Size - d
Adjacent(i, j) ==
    /\ TorusGap(CellX(i), CellX(j), GlobalMapWidth) <= 1
    /\ TorusGap(CellY(i), CellY(j), GlobalMapHeight) <= 1
WholeSectors ==
    /\ GlobalMapWidth > 0 /\ GlobalMapWidth % SectorSize = 0
    /\ GlobalMapHeight > 0 /\ GlobalMapHeight % SectorSize = 0

\* C35: right after GenerateGrid on a map whose dimensions are multiples of
\* 50, every scary cell lies 5..45 into its sector on both axes, no two scary
\* cells of different sectors are adjacent (the wrap seam included), and every
\* sector holds exactly one scary cell.
C35_ScaryCellsKeepSectorMargin ==
    (call.op = "GenerateGrid" /\ WholeSectors) =>
       \A S \in {ScaryCells} :
          /\ \A i \in S :
                /\ CellX(i) % SectorSize \in EdgeOffset .. (SectorSize - EdgeOffset)
                /\ CellY(i) % SectorSize \in EdgeOffset .. (SectorSize - EdgeOffset)
          /\ \A i, j \in S : SectorOf(i) # SectorOf(j) => ~Adjacent(i, j)
          /\ \A sx \in 0 .. (GlobalMapWidth \div SectorSize - 1),
                sy \in 0 .. (GlobalMapHeight \div SectorSize - 1) :
                Cardinality({ i \in S : SectorOf(i) = <<sx, sy>> }) = 1

\* A map of two sectors was generated; one scary cell sits on the margin.
C35_Witness ==
    /\ call.op = "GenerateGrid"
    /\ GlobalMapWidth = 2 * SectorSize
    /\ Cardinality(ScaryCells) = 2
    /\ \E i \in ScaryCells : CellX(i) % SectorSize = EdgeOffset

\* ---------------------------------------------------------------- C36
\* Centre indices next to the map's index range, on either side of it.
OutsideCentres ==
    LET Total == GlobalMapWidth * GlobalMapHeight
    IN  ((-GlobalMapWidth - 1) .. (-1)) \cup (Total .. (Total + GlobalMapWidth))

\* C36: lookups with an index outside the grid give empty results:
\* Get3x3Group of a centre outside 0 .. width*height-1 returns the empty list,
\* and IsIndexScary and GetGridNumber return false and 0 when the index they
\* compute is not valid for the arrays.
C36_OutOfRangeLookupsAreEmpty ==
    (call.op = "Get3x3Group" /\ ~fatal /\ GlobalMapWidth > 0 /\ GlobalMapHeight > 0) =>
       /\ \A c \in OutsideCentres : Get3x3Group(c) = <<>>
       /\ \A i \in ScreenInputs :
             ~IsValidIndex(ScaryActive, GetGlobalIndexFromScreenIndex(i)) => ~IsIndexScary(i)
       /\ \A x, y \in Coords :
             ~IsValidIndex(GlobalGridNumbers,
                           WrapCoord(y, GlobalMapHeight) * GlobalMapWidth
                             + WrapCoord(x, GlobalMapWidth))
               => GetGridNumber(x, y) = 0

\* ---------------------------------------------------------------- C37
\* Axis i holds what the calls since construction have put into it: position
\* plus accumulator equals the constructor's position plus the sum of the
\* deltas, modulo the map size.
Conserved(i) ==
    (ScrollOf(i) * AccUnit + AccumulatorOf(i) - (CtorScroll * AccUnit + deltaSum[i]))
       % (MapSizeOf(i) * AccUnit) = 0

\* C37 (as stated): after any sequence of ApplyTrackballInput calls, scroll
\* position plus accumulator is congruent, modulo the map size, to its initial
\* value plus the sum of the deltas (-Axis * sensitivity), on both axes.
C37_ScrollIsConserved ==
    PositiveMap => \A i \in Axes : Conserved(i)

\* C37 (amended): the same, for calls all of whose float and int32 operations
\* are exact.
C37_ExactScrollIsConserved ==
    (PositiveMap /\ ~inexact) => \A i \in Axes : Conserved(i)

\* Exact calls have moved the y axis back across the edge of the map, with a
\* fraction left in its accumulator, and the x axis forward by a fraction.
C37_Witness ==
    /\ ~inexact
    /\ Scrolled
    /\ calls = MaxScrollCalls - 3
    /\ stepSum[2] < 0
    /\ ScrollY < CtorScroll
    /\ AccumulatorY < 0
    /\ AccumulatorX > 0

\* ---------------------------------------------------------------- C38
\* The contributions of the tiles the step's call consumes: the total of the
\* loop of a HandleScaryDrop, nothing for any other call.
Eaten ==
    IF call'.op = "HandleScaryDrop" /\ ~fatal'
    THEN DropLoop(DropStart, call'.sel, 1).total ELSE 0
NoBars == [j \in 0 .. (NumBars - 1) |-> 0]
\* The step is a reset of the bars: ResetProgressBars itself, or the one a file
\* completion makes.
ResetsBars ==
    \/ call'.op \in {"ResetProgressBars", "OnFileWorkComplete"}
    \/ call'.op \in ApplyingOps /\ HasIn(events', "FileCompleted")

\* C38: progress comes from consumed tiles only.  No step raises 1.0 x the
\* bars' total plus 1.5 x the pending chunk by more than 1.5 x the
\* contributions of the tiles it consumes, so the bars' total since the last
\* reset is at most 1.5 x the contributions of the tiles consumed by
\* HandleScaryDrop calls; and a bar changes only by rising in an
\* ApplChunkToBar or by a reset of all bars to 0.
C38_ProgressComesFromTiles ==
    [][ /\ 2 * SumBars(ProgressBars') + 3 * PendingChunkValue'
             <= 2 * SumBars(ProgressBars) + 3 * PendingChunkValue + 3 * Eaten
        /\ \/ ProgressBars' = ProgressBars
           \/ /\ call'.op \in ApplyingOps
              /\ HasIn(events', "ChunkConsumed")
              /\ \A j \in 0 .. (NumBars - 1) : ProgressBars'[j] >= ProgressBars[j]
           \/ ResetsBars /\ ProgressBars' = NoBars ]_vars

\* A direct ApplChunkToBar has credited a bar with the chunk an earlier drop
\* left pending.
C38_Witness ==
    /\ call.op = "ApplChunkToBar"
    /\ HasIn(events, "ChunkConsumed")
    /\ ~HasIn(events, "FileCompleted")
    /\ SumBars(ProgressBars) > 0
    /\ PendingChunkValue = 0

\* ---------------------------------------------------------------- C39
\* C39: while the day is inactive no progress is recorded.  From a state with
\* no active day no step raises a bar and no HandleScaryDrop or ApplChunkToBar
\* emits file-completed or day-complete; such a call emits day-complete once,
\* and only in the step that ends an active day, and only StartDay makes the
\* day active: at most one day-complete of these calls per StartDay.
C39_NoProgressWhileInactive ==
    [][ /\ ~bDayActive =>
              /\ \A j \in 0 .. (NumBars - 1) : ProgressBars'[j] <= ProgressBars[j]
              /\ call'.op \in ApplyingOps =>
                    /\ ~HasIn(events', "FileCompleted")
                    /\ ~HasIn(events', "DayComplete")
        /\ (call'.op \in ApplyingOps /\ HasIn(events', "DayComplete")) =>
              /\ bDayActive /\ ~bDayActive'
              /\ CountIn(events', "DayComplete") = 1
        /\ (~bDayActive /\ bDayActive') => call'.op = "StartDay" ]_vars

\* The day has ended by its last file completion; a drop that consumed a tile
\* was then made onto a bar and credited nothing.
C39_Witness ==
    /\ call.op = "HandleScaryDrop"
    /\ ValidBar(call.bar)
    /\ ~bDayActive
    /\ FilesRefinedCount >= FilesPerDay
    /\ SumBars(ProgressBars) = MasterOne
    /\ PendingChunkValue > 0
    /\ events = <<Ev0("GridScrolled")>>

\* ---------------------------------------------------------------- C40
\* C40: in every reachable state GetMasterProgress() >= 1.0 exactly when all
\* four bars are >= 1.0; an ApplChunkToBar triggers a file completion only
\* with every bar full, the bar it has just raised included, and at most one
\* file completion per call.
C40_MasterFullIffAllBarsFull ==
    /\ GetMasterProgress(ProgressBars) >= MasterOne <=> AllBarsFull(ProgressBars)
    /\ (call.op \in ApplyingOps /\ HasIn(events, "FileCompleted")) =>
          /\ CountIn(events, "FileCompleted") = 1
          /\ events[2] = Ev("ProgressUpdated", call.bar, One)
          /\ \/ AllBarsFull(ProgressBars)
             \/ ProgressBars = NoBars /\ HasIn(events, "ShowFileSelection")

\* A direct ApplChunkToBar filled the last open bar and completed the day.
C40_Witness ==
    /\ call.op = "ApplChunkToBar"
    /\ HasIn(events, "FileCompleted")
    /\ HasIn(events, "DayComplete")
    /\ AllBarsFull(ProgressBars)
    /\ GetMasterProgress(ProgressBars) = MasterOne

====
